---- MODULE Spec2Model ----
(***************************************************************************)
(* A model of bro_tools.log_reader: the BroLogReader iteration over the    *)
(* lines of a Bro log, its metadata directives and its value casters.      *)
(*                                                                         *)
(* A Python str is a tuple of one-character strings, so that splitting,    *)
(* stripping, unescaping and iterating over a str are computed and not     *)
(* assumed.  Every Python value carries a tag: a str and a tuple of str    *)
(* are different values, as they are in Python.                            *)
(***************************************************************************)
EXTENDS Integers, Sequences, FiniteSets, TLC

(***************************************************************************)
(* Bounds of the model.                                                    *)
(***************************************************************************)
\* The number of lines the log file holds at most.
MaxLines == 5
\* The number of lines that follow a header at most.
MaxBodyLines == 2

(***************************************************************************)
(* Python values.                                                          *)
(***************************************************************************)
PyStr(cs) == [tag |-> "str", val |-> cs]
PyTuple(xs) == [tag |-> "tuple", val |-> xs]
PyNone == [tag |-> "None", val |-> <<>>]
PyInt(n) == [tag |-> "int", val |-> n]
PyBool(b) == [tag |-> "bool", val |-> b]
PySet(S) == [tag |-> "set", val |-> S]
\* A float in fixed point: val is the number of 10^-6 units.
PyFloat(us) == [tag |-> "float", val |-> us]
PyTimedelta(us) == [tag |-> "timedelta", val |-> us]
\* datetime.datetime(year, month, day, hour, minute, second, microsecond)
PyDatetime(parts) == [tag |-> "datetime", val |-> parts]
\* datetime.datetime.fromtimestamp(t): the instant t, in 10^-6 s since the epoch
PyDatetimeAt(us) == [tag |-> "datetime_at", val |-> us]
PyIPv4Address(octets) == [tag |-> "IPv4Address", val |-> octets]

\* Python's len() of a str or a tuple
len(v) == Len(v.val)

(***************************************************************************)
(* The outcome of evaluating an expression: a value, or a raised exception *)
(* (its class, its message format and the values formatted into it).       *)
(***************************************************************************)
NoException == [exc |-> "", fmt |-> "", args |-> <<>>]
Exception(cls, fmt, args) == [exc |-> cls, fmt |-> fmt, args |-> args]
Return(v) == [ok |-> TRUE, val |-> v, err |-> NoException]
Raise(e) == [ok |-> FALSE, val |-> PyNone, err |-> e]

(***************************************************************************)
(* Characters.                                                             *)
(***************************************************************************)
Digits == <<"0", "1", "2", "3", "4", "5", "6", "7", "8", "9">>
HexLower == Digits \o <<"a", "b", "c", "d", "e", "f">>
HexUpper == Digits \o <<"A", "B", "C", "D", "E", "F">>
Letters == {"a", "b", "c", "d", "e", "f", "g", "h", "i", "j", "k", "l", "m",
            "n", "o", "p", "q", "r", "s", "t", "u", "v", "w", "x", "y", "z",
            "A", "B", "C", "D", "E", "F", "G", "H", "I", "J", "K", "L", "M",
            "N", "O", "P", "Q", "R", "S", "T", "U", "V", "W", "X", "Y", "Z"}
\* The printable ASCII characters, code points 32 to 126, in order.
Printable == <<" ", "!", "\"", "#", "$", "%", "&", "'", "(", ")", "*", "+",
               ",", "-", ".", "/", "0", "1", "2", "3", "4", "5", "6", "7",
               "8", "9", ":", ";", "<", "=", ">", "?", "@", "A", "B", "C",
               "D", "E", "F", "G", "H", "I", "J", "K", "L", "M", "N", "O",
               "P", "Q", "R", "S", "T", "U", "V", "W", "X", "Y", "Z", "[",
               "\\", "]", "^", "_", "<grave>", "a", "b", "c", "d", "e", "f", "g",
               "h", "i", "j", "k", "l", "m", "n", "o", "p", "q", "r", "s",
               "t", "u", "v", "w", "x", "y", "z", "{", "|", "}", "~">>
\* A character outside the table below (the model's lines never produce one).
OtherChar == "<other>"

IndexOf(c, seq) == CHOOSE i \in 1..Len(seq) : seq[i] = c
IsDigit(c) == \E i \in 1..Len(Digits) : Digits[i] = c
DigitVal(c) == IndexOf(c, Digits) - 1
IsHex(c) == \E i \in 1..16 : HexLower[i] = c \/ HexUpper[i] = c
HexVal(c) == IF \E i \in 1..16 : HexLower[i] = c THEN IndexOf(c, HexLower) - 1
             ELSE IndexOf(c, HexUpper) - 1
IsOctal(c) == IsDigit(c) /\ DigitVal(c) < 8
\* \w of the re module, on ASCII
IsWord(c) == c \in Letters \/ IsDigit(c) \/ c = "_"
\* str.isspace, on ASCII
IsSpace(c) == c \in {" ", "\t", "\n", "\r", "\f"}
\* chr(n)
chr(n) == IF n >= 32 /\ n <= 126 THEN Printable[n - 31]
          ELSE IF n = 9 THEN "\t"
          ELSE IF n = 10 THEN "\n"
          ELSE IF n = 12 THEN "\f"
          ELSE IF n = 13 THEN "\r"
          ELSE OtherChar

(***************************************************************************)
(* str methods, on tuples of characters.                                   *)
(***************************************************************************)
startswith(s, c) == s # <<>> /\ Head(s) = c

RECURSIVE lstrip(_, _)
lstrip(s, c) == IF s # <<>> /\ Head(s) = c THEN lstrip(Tail(s), c) ELSE s

RECURSIVE rstrip(_, _)
rstrip(s, c) == IF s # <<>> /\ s[Len(s)] = c
                THEN rstrip(SubSeq(s, 1, Len(s) - 1), c) ELSE s

\* s.split(sep) for a separator of one character: the tuple of the pieces
RECURSIVE split(_, _)
split(s, sep) ==
    IF \A i \in 1..Len(s) : s[i] # sep THEN <<s>>
    ELSE LET i == CHOOSE k \in 1..Len(s) :
                      s[k] = sep /\ \A j \in 1..(k - 1) : s[j] # sep
         IN <<SubSeq(s, 1, i - 1)>> \o split(SubSeq(s, i + 1, Len(s)), sep)

\* s.strip(): whitespace removed at both ends
RECURSIVE strip(_)
strip(s) == IF s # <<>> /\ IsSpace(Head(s)) THEN strip(Tail(s))
            ELSE IF s # <<>> /\ IsSpace(s[Len(s)])
                 THEN strip(SubSeq(s, 1, Len(s) - 1))
            ELSE s

\* The number a tuple of decimal digits writes
RECURSIVE DecimalValue(_)
DecimalValue(ds) == IF ds = <<>> THEN 0
                    ELSE 10 * DecimalValue(SubSeq(ds, 1, Len(ds) - 1))
                         + DigitVal(ds[Len(ds)])

Pow10(n) == CASE n = 0 -> 1 [] n = 1 -> 10 [] n = 2 -> 100 [] n = 3 -> 1000
              [] n = 4 -> 10000 [] n = 5 -> 100000 [] OTHER -> 1000000

(***************************************************************************)
(* maybe_singleton                                                         *)
(***************************************************************************)
\* thing is a tuple of str; thing[0] is a str
maybe_singleton(thing) == IF Len(thing) = 1 THEN PyStr(thing[1])
                          ELSE PyTuple([i \in 1..Len(thing) |-> PyStr(thing[i])])

(***************************************************************************)
(* int(val), of a str                                                      *)
(***************************************************************************)
\* digits, with single underscores allowed between them
IsIntBody(b) == /\ b # <<>>
                /\ \A i \in 1..Len(b) : IsDigit(b[i]) \/ b[i] = "_"
                /\ IsDigit(b[1]) /\ IsDigit(b[Len(b)])
                /\ \A i \in 1..(Len(b) - 1) : ~(b[i] = "_" /\ b[i + 1] = "_")
RECURSIVE DropUnderscores(_)
DropUnderscores(b) == IF b = <<>> THEN <<>>
                      ELSE IF Head(b) = "_" THEN DropUnderscores(Tail(b))
                      ELSE <<Head(b)>> \o DropUnderscores(Tail(b))
int(val) ==
    LET t == strip(val)
        signed == t # <<>> /\ Head(t) \in {"+", "-"}
        body == IF signed THEN Tail(t) ELSE t
        n == DecimalValue(DropUnderscores(body))
    IN IF IsIntBody(body)
       THEN Return(PyInt(IF signed /\ Head(t) = "-" THEN 0 - n ELSE n))
       ELSE Raise(Exception("ValueError",
                  "invalid literal for int() with base 10: {!r}", <<PyStr(val)>>))

(***************************************************************************)
(* float(x), of a str written as [sign] digits [. digits] with at most six *)
(* digits after the point: the value in 10^-6 units.                       *)
(***************************************************************************)
AllDigits(ds) == \A i \in 1..Len(ds) : IsDigit(ds[i])
float(x) ==
    LET t == strip(x)
        signed == t # <<>> /\ Head(t) \in {"+", "-"}
        body == IF signed THEN Tail(t) ELSE t
        parts == split(body, ".")
        whole == parts[1]
        frac == IF Len(parts) = 2 THEN parts[2] ELSE <<>>
        wellFormed == /\ Len(parts) <= 2
                      /\ AllDigits(whole) /\ AllDigits(frac)
                      /\ Len(whole) + Len(frac) > 0
                      /\ Len(frac) <= 6
        us == DecimalValue(whole) * 1000000
              + DecimalValue(frac) * Pow10(6 - Len(frac))
    IN IF wellFormed
       THEN Return(PyFloat(IF signed /\ Head(t) = "-" THEN 0 - us ELSE us))
       ELSE Raise(Exception("ValueError",
                  "could not convert string to float: {!r}", <<PyStr(x)>>))

(***************************************************************************)
(* ipaddress.ip_address(address), on dotted-quad IPv4 text (the model's    *)
(* lines hold no IPv6 text: no character ":").                             *)
(***************************************************************************)
IsOctet(p) == /\ Len(p) >= 1 /\ Len(p) <= 3
              /\ AllDigits(p)
              /\ (Len(p) > 1 => p[1] # "0")
              /\ DecimalValue(p) <= 255
ip_address(address) ==
    LET parts == split(address, ".")
    IN IF Len(parts) = 4 /\ \A i \in 1..4 : IsOctet(parts[i])
       THEN Return(PyIPv4Address([i \in 1..4 |-> DecimalValue(parts[i])]))
       ELSE Raise(Exception("ValueError",
                  "{!r} does not appear to be an IPv4 or IPv6 address",
                  <<PyStr(address)>>))

(***************************************************************************)
(* datetime.datetime called with a tuple of integers as its arguments.     *)
(***************************************************************************)
IsLeap(y) == (y % 4 = 0 /\ y % 100 # 0) \/ y % 400 = 0
DaysInMonth(y, m) == IF m = 2 THEN (IF IsLeap(y) THEN 29 ELSE 28)
                     ELSE IF m \in {4, 6, 9, 11} THEN 30 ELSE 31
datetime(args) ==
    LET n == Len(args)
        part(i) == IF i <= n THEN args[i] ELSE 0
    IN IF n < 3
       THEN Raise(Exception("TypeError",
                  "function missing required argument", <<>>))
       ELSE IF n > 7
       THEN Raise(Exception("TypeError",
                  "tzinfo argument must be None or of a tzinfo subclass", <<>>))
       ELSE IF /\ args[1] >= 1 /\ args[1] <= 9999
               /\ args[2] >= 1 /\ args[2] <= 12
               /\ args[3] >= 1 /\ args[3] <= DaysInMonth(args[1], args[2])
               /\ part(4) >= 0 /\ part(4) <= 23
               /\ part(5) >= 0 /\ part(5) <= 59
               /\ part(6) >= 0 /\ part(6) <= 59
               /\ part(7) >= 0 /\ part(7) <= 999999
       THEN Return(PyDatetime([i \in 1..7 |-> part(i)]))
       ELSE Raise(Exception("ValueError", "{} is out of range",
                            [i \in 1..n |-> PyInt(args[i])]))

(***************************************************************************)
(* codecs.decode(rest, 'unicode_escape')                                   *)
(***************************************************************************)
\* The escapes of one character after the backslash, and what they stand for
SimpleEscapes == {"\\", "'", "\"", "a", "b", "f", "n", "r", "t", "v"}
SimpleEscape(c) == CASE c = "\\" -> "\\" [] c = "'" -> "'" [] c = "\"" -> "\""
                     [] c = "a" -> chr(7) [] c = "b" -> chr(8)
                     [] c = "f" -> chr(12) [] c = "n" -> chr(10)
                     [] c = "r" -> chr(13) [] c = "t" -> chr(9)
                     [] c = "v" -> chr(11)
\* <<TRUE, the decoded characters of s>>, or <<FALSE, <<>>>> when an escape
\* is cut short.  The named escape \N{...} is not modelled: no line holds one.
RECURSIVE unicode_escape(_)
unicode_escape(s) ==
    LET then(c, k) == \* c, followed by what s decodes to after k characters
            LET r == unicode_escape(SubSeq(s, k + 1, Len(s)))
            IN <<r[1], c \o r[2]>>
    IN IF s = <<>> THEN <<TRUE, <<>>>>
       ELSE IF Head(s) # "\\" THEN then(<<Head(s)>>, 1)
       ELSE IF Len(s) = 1 THEN <<FALSE, <<>>>>
       ELSE IF s[2] = "x"
            THEN IF Len(s) >= 4 /\ IsHex(s[3]) /\ IsHex(s[4])
                 THEN then(<<chr(16 * HexVal(s[3]) + HexVal(s[4]))>>, 4)
                 ELSE <<FALSE, <<>>>>
       ELSE IF s[2] = "u"
            THEN IF Len(s) >= 6 /\ \A i \in 3..6 : IsHex(s[i])
                 THEN then(<<chr(4096 * HexVal(s[3]) + 256 * HexVal(s[4])
                                 + 16 * HexVal(s[5]) + HexVal(s[6]))>>, 6)
                 ELSE <<FALSE, <<>>>>
       ELSE IF s[2] = "U"
            THEN IF /\ Len(s) >= 10 /\ \A i \in 3..10 : IsHex(s[i])
                    /\ s[3] = "0" /\ s[4] = "0" /\ HexVal(s[5]) <= 1
                    /\ (HexVal(s[5]) = 1 => s[6] = "0")
                 THEN then(<<chr(1048576 * HexVal(s[5]) + 65536 * HexVal(s[6])
                                 + 4096 * HexVal(s[7]) + 256 * HexVal(s[8])
                                 + 16 * HexVal(s[9]) + HexVal(s[10]))>>, 10)
                 ELSE <<FALSE, <<>>>>
       ELSE IF IsOctal(s[2])
            THEN LET k == IF Len(s) >= 4 /\ IsOctal(s[3]) /\ IsOctal(s[4]) THEN 3
                          ELSE IF Len(s) >= 3 /\ IsOctal(s[3]) THEN 2 ELSE 1
                     v == IF k = 3 THEN 64 * DigitVal(s[2]) + 8 * DigitVal(s[3])
                                        + DigitVal(s[4])
                          ELSE IF k = 2 THEN 8 * DigitVal(s[2]) + DigitVal(s[3])
                          ELSE DigitVal(s[2])
                 IN then(<<chr(v)>>, k + 1)
       ELSE IF s[2] \in SimpleEscapes THEN then(<<SimpleEscape(s[2])>>, 2)
       ELSE then(<<"\\", s[2]>>, 2)

codecs_decode(rest) ==
    IF rest.tag # "str"
    THEN Raise(Exception("TypeError",
               "decoding with 'unicode_escape' codec failed", <<rest>>))
    ELSE LET r == unicode_escape(rest.val)
         IN IF r[1] THEN Return(PyStr(r[2]))
            ELSE Raise(Exception("UnicodeDecodeError",
                       "'unicodeescape' codec can't decode", <<rest>>))

(***************************************************************************)
(* range_check(minv, maxv): the caster it returns, applied to val.  A      *)
(* bound is <<n>>, or <<>> for None.                                       *)
(***************************************************************************)
\* range_check with the upper bound taken as inclusive
range_check_inclusive(minv, maxv, val) ==
    LET r == int(val)
        n == r.val.val
    IN IF ~r.ok THEN r
       ELSE IF (minv # <<>> => minv[1] <= n) /\ (maxv # <<>> => n <= maxv[1])
            THEN r
       ELSE Raise(Exception("ValueError", "{} not between {} and {}",
                  <<PyInt(n)>> \o [i \in 1..Len(minv) |-> PyInt(minv[i])]
                             \o [i \in 1..Len(maxv) |-> PyInt(maxv[i])]))

range_check(minv, maxv, val) ==
    LET r == int(val)
        n == r.val.val
    IN IF ~r.ok THEN r
       ELSE IF minv # <<>> /\ maxv # <<>>
            THEN IF minv[1] <= n /\ n < maxv[1] THEN r
                 ELSE Raise(Exception("ValueError", "{} not between {} and {}",
                            <<PyInt(n), PyInt(minv[1]), PyInt(maxv[1])>>))
       ELSE IF maxv # <<>>
            THEN IF n < maxv[1] THEN r
                 ELSE Raise(Exception("ValueError", "{} not less than {}",
                            <<PyInt(n), PyInt(maxv[1])>>))
       ELSE IF minv # <<>>
            THEN IF minv[1] <= n THEN r
                 ELSE Raise(Exception("ValueError",
                            "{} not greater than or equal to {}",
                            <<PyInt(n), PyInt(minv[1])>>))
       ELSE r

(***************************************************************************)
(* bool_from_str                                                           *)
(***************************************************************************)
bool_from_str(v) ==
    IF v \in {<<"1">>, <<"y">>, <<"Y">>, <<"t">>, <<"T">>} THEN Return(PyBool(TRUE))
    ELSE IF v \in {<<"0">>, <<"n">>, <<"N">>, <<"f">>, <<"F">>} THEN Return(PyBool(FALSE))
    ELSE Raise(Exception("ValueError", "{!r} not bool-like", <<PyStr(v)>>))

(***************************************************************************)
(* AGGREGATE_TYPE_RE.match(type_), for ^(\w+)\[(\w+)\]$: the groups        *)
(* <<agg_type, subtype>> of the match, or <<>> when there is none.         *)
(***************************************************************************)
AGGREGATE_TYPE_RE(type_) ==
    LET \* $ also matches before a newline that ends the string
        t == IF type_ # <<>> /\ type_[Len(type_)] = "\n"
             THEN SubSeq(type_, 1, Len(type_) - 1) ELSE type_
        opens == {i \in 1..Len(t) : t[i] = "["}
        IsMatch(i) == /\ i > 1 /\ i + 1 < Len(t) /\ t[Len(t)] = "]"
                      /\ \A j \in 1..(i - 1) : IsWord(t[j])
                      /\ \A j \in (i + 1)..(Len(t) - 1) : IsWord(t[j])
    IN IF \E i \in opens : IsMatch(i)
       THEN LET i == CHOOSE k \in opens : IsMatch(k)
            IN <<SubSeq(t, 1, i - 1), SubSeq(t, i + 1, Len(t) - 1)>>
       ELSE <<>>

(***************************************************************************)
(* AGGREGATE_TYPES[agg_type]: whether the key is there, and the collection *)
(* the constructor makes of the elements it is given, in order.            *)
(***************************************************************************)
AGGREGATE_TYPES == {<<"s", "e", "t">>, <<"v", "e", "c", "t", "o", "r">>}
\* AGGREGATE_TYPES with tuple as the constructor of both kinds
AggregateOf_tuple(agg_type, elems) == PyTuple(elems)

AggregateOf(agg_type, elems) ==
    IF agg_type = <<"s", "e", "t">> THEN PySet({elems[i] : i \in 1..Len(elems)})
    ELSE PyTuple(elems)

(***************************************************************************)
(* TYPES[type_](x)                                                         *)
(***************************************************************************)
TYPES == {<<"a", "d", "d", "r">>, <<"b", "o", "o", "l">>, <<"c", "o", "u", "n", "t">>, <<"e", "n", "u", "m">>, <<"i", "n", "t", "e", "r", "v", "a", "l">>, <<"p", "o", "r", "t">>,
          <<"s", "t", "r", "i", "n", "g">>, <<"t", "i", "m", "e">>}
Caster(type_, x) ==
    CASE type_ = <<"a", "d", "d", "r">> -> ip_address(x)
      [] type_ = <<"b", "o", "o", "l">> -> bool_from_str(x)
      [] type_ = <<"c", "o", "u", "n", "t">> -> range_check(<<0>>, <<>>, x)
      [] type_ = <<"e", "n", "u", "m">> -> Return(PyStr(x))
      [] type_ = <<"i", "n", "t", "e", "r", "v", "a", "l">> ->
            LET f == float(x)
            IN IF f.ok THEN Return(PyTimedelta(f.val.val)) ELSE f
      [] type_ = <<"p", "o", "r", "t">> -> range_check(<<0>>, <<2^16>>, x)
      [] type_ = <<"s", "t", "r", "i", "n", "g">> -> Return(PyStr(x))
      [] type_ = <<"t", "i", "m", "e">> ->
            LET f == float(x)
            IN IF f.ok THEN Return(PyDatetimeAt(f.val.val)) ELSE f

(***************************************************************************)
(* The lines a log file may hold.  Each ends with its newline.             *)
(***************************************************************************)
MetadataLines == {
    <<"#", "s", "e", "p", "a", "r", "a", "t", "o", "r", " ", "\\", "x", "0", "9", "\n">>,
    <<"#", "s", "e", "p", "a", "r", "a", "t", "o", "r", " ", "a", "b", "\n">>,
    <<"#", "s", "e", "p", "a", "r", "a", "t", "o", "r", "\n">>,
    <<"#", "u", "n", "s", "e", "t", "_", "f", "i", "e", "l", "d", " ", "-", "\n">>,
    <<"#", "f", "i", "e", "l", "d", "s", " ", "a", " ", "b", "\n">>,
    <<"#", "f", "i", "e", "l", "d", "s", " ", "t", "s", "\n">>,
    <<"#", "f", "i", "e", "l", "d", "s", " ", "a", " ", "b", " ", "c", "\n">>,
    <<"#", "t", "y", "p", "e", "s", " ", "p", "o", "r", "t", " ", "b", "o", "o", "l", "\n">>,
    <<"#", "t", "y", "p", "e", "s", " ", "p", "o", "r", "t", "\n">>,
    <<"#", "t", "y", "p", "e", "s", " ", "d", "o", "u", "b", "l", "e", " ", "e", "n", "u", "m", "\n">>,
    <<"#", "u", "n", "s", "e", "t", "_", "f", "i", "e", "l", "d", "\t", "-", "\n">>,
    <<"#", "f", "i", "e", "l", "d", "s", "\t", "a", "\t", "b", "\n">>,
    <<"#", "t", "y", "p", "e", "s", "\t", "p", "o", "r", "t", "\t", "b", "o", "o", "l", "\n">> }
DataLines == {
    <<"8", "0", " ", "T", "\n">>,
    <<"6", "5", "5", "3", "6", " ", "T", "\n">>,
    <<"-", " ", "F", "\n">>,
    <<"8", "0", "\n">>,
    <<"8", "0", "\t", "T", "\n">> }
Lines == MetadataLines \cup DataLines

(***************************************************************************)
(* The reader.                                                             *)
(***************************************************************************)
VARIABLES
    _metadata,              \* self._metadata: directive key -> value
    _decompose_aggregate,   \* self._decompose_aggregate
    remaining,              \* self._logfile: how many more lines it may give
    gen,                    \* the generator of __iter__: "suspended" between
                            \* two lines, "raised" once an exception left it,
                            \* "exhausted" once the file ended
    raised,                 \* the exception that left the generator
    yielded,                \* the records yielded so far, in order
    line,                   \* __iter__'s local: the line read last
    tokens                  \* __iter__'s local: what splitting the line gave

vars == <<_metadata, _decompose_aggregate, remaining, gen, raised, yielded,
          line, tokens>>

\* self, as the methods read it
Self == [_metadata |-> _metadata, _decompose_aggregate |-> _decompose_aggregate]

\* self._metadata as __init__ sets it
InitialMetadata == (<<"s", "e", "p", "a", "r", "a", "t", "o", "r">> :> PyStr(<<" ">>))

\* BroLogReader.__init__
Init ==
    /\ _metadata = InitialMetadata
    /\ _decompose_aggregate \in BOOLEAN
    /\ remaining = MaxLines
    /\ gen = "suspended"
    /\ raised = NoException
    /\ yielded = <<>>
    /\ line = <<>>
    /\ tokens = <<>>

\* __getattr__ with a default in place of the AttributeError
__getattr___default(self, name) ==
    Return(IF name \in DOMAIN self._metadata THEN self._metadata[name]
           ELSE PyTuple(<<>>))

\* BroLogReader.__getattr__
__getattr__(self, name) ==
    IF name \in DOMAIN self._metadata THEN Return(self._metadata[name])
    ELSE Raise(Exception("AttributeError", "{}", <<PyStr(name)>>))

\* The first outcome of rs that is an exception, or rs's values as a list
Collect(rs) ==
    IF \E i \in 1..Len(rs) : ~rs[i].ok
    THEN rs[CHOOSE i \in 1..Len(rs) : ~rs[i].ok /\ \A j \in 1..(i - 1) : rs[j].ok]
    ELSE Return([tag |-> "list", val |-> [i \in 1..Len(rs) |-> rs[i].val]])

\* The unset test against the marker Bro writes by default
IsUnset_dash(value, unset_field) == value = <<"-">>

\* _cast_value: value == self.unset_field, given the attribute
IsUnset(value, unset_field) == PyStr(value) = unset_field

\* _cast_value: value == self.empty_field, given the attribute
IsEmpty(value, empty_field) == PyStr(value) = empty_field

\* The test of the mode, with the mode ignored
Decompose_always(self) == TRUE

\* _cast_value: if self._decompose_aggregate
Decompose(self) == self._decompose_aggregate

\* BroLogReader._cast_value
RECURSIVE _cast_value(_, _, _)
_cast_value(self, value, type_) ==
    LET unset_field == __getattr__(self, <<"u", "n", "s", "e", "t", "_", "f", "i", "e", "l", "d">>)
        empty_field == __getattr__(self, <<"e", "m", "p", "t", "y", "_", "f", "i", "e", "l", "d">>)
        set_separator == __getattr__(self, <<"s", "e", "t", "_", "s", "e", "p", "a", "r", "a", "t", "o", "r">>)
        m == AGGREGATE_TYPE_RE(type_)
        agg_type == m[1]
        subtype == m[2]
    IN IF ~unset_field.ok THEN unset_field
       ELSE IF IsUnset(value, unset_field.val) THEN Return(PyNone)
       ELSE IF m # <<>>
            THEN IF Decompose(self)
                 THEN IF ~empty_field.ok THEN empty_field
                      ELSE IF agg_type \notin AGGREGATE_TYPES
                           THEN Raise(Exception("KeyError", "{!r}",
                                                <<PyStr(agg_type)>>))
                      ELSE IF IsEmpty(value, empty_field.val)
                           THEN Return(AggregateOf(agg_type, <<>>))
                      ELSE IF ~set_separator.ok THEN set_separator
                      ELSE LET vs == split(value, set_separator.val.val[1])
                               elems == Collect([i \in 1..Len(vs) |->
                                            _cast_value(self, vs[i], subtype)])
                           IN IF elems.ok
                              THEN Return(AggregateOf(agg_type, elems.val.val))
                              ELSE elems
                 ELSE Return(PyStr(value))
       ELSE IF type_ \in TYPES THEN Caster(type_, value)
       ELSE Raise(Exception("KeyError", "{!r}", <<PyStr(type_)>>))

\* What iterating over a str or a tuple of str gives: one-character strs, or
\* the tuple's elements
Iterate(v) == IF v.tag = "str" THEN [i \in 1..Len(v.val) |-> <<v.val[i]>>]
              ELSE [i \in 1..Len(v.val) |-> v.val[i].val]

Min(a, b) == IF a <= b THEN a ELSE b

\* BroLogReader._cast_values; types is self._metadata['types']
_cast_values(self, values, types) ==
    LET ts == Iterate(types)
    IN Collect([i \in 1..Min(Len(values), Len(ts)) |->
                   _cast_value(self, values[i], ts[i])])

\* dict(pairs): the keys in the order they first come, each with the value
\* that comes last for it
RECURSIVE dict(_)
dict(pairs) ==
    IF pairs = <<>> THEN <<>>
    ELSE LET before == dict(SubSeq(pairs, 1, Len(pairs) - 1))
             p == pairs[Len(pairs)]
         IN IF \E i \in 1..Len(before) : before[i][1] = p[1]
            THEN [i \in 1..Len(before) |->
                     IF before[i][1] = p[1] THEN p ELSE before[i]]
            ELSE Append(before, p)

\* dict(zip(self.fields, values)), values a list
Record(fields, values) ==
    LET fs == Iterate(fields)
    IN [tag |-> "dict",
        val |-> dict([i \in 1..Min(Len(fs), Len(values.val)) |->
                         <<fs[i], values.val[i]>>])]

\* The separator of __init__, whatever the directives stored
SplitSeparator_initial(self) == " "

\* The separator a line is split on: self.separator
SplitSeparator(self) == self._metadata[<<"s", "e", "p", "a", "r", "a", "t", "o", "r">>].val[1]

\* __iter__, a metadata line: key, *rest = line.lstrip('#').rstrip('\n').split(...)
MetadataTokens(self, l) ==
    split(rstrip(lstrip(l, "#"), "\n"), SplitSeparator(self))

\* __iter__, a metadata line: the value to store under the key, or the
\* exception
Directive(key, rest) ==
    IF key \in {<<"s", "e", "p", "a", "r", "a", "t", "o", "r">>, <<"s", "e", "t", "_", "s", "e", "p", "a", "r", "a", "t", "o", "r">>}
    THEN LET d == codecs_decode(rest)
         IN IF ~d.ok THEN d
            ELSE IF len(d.val) # 1
                 THEN Raise(Exception("BroLogFormatError",
                            "\"{!r}\" is not a valid separator", <<d.val>>))
            ELSE d
    ELSE IF key \in {<<"o", "p", "e", "n">>, <<"c", "l", "o", "s", "e">>}
    THEN IF rest.tag # "str"
         THEN Raise(Exception("AttributeError",
                    "'tuple' object has no attribute 'split'", <<>>))
         ELSE LET ps == split(rest.val, "-")
                  ints == Collect([i \in 1..Len(ps) |-> int(ps[i])])
              IN IF ~ints.ok THEN ints
                 ELSE datetime([i \in 1..Len(ps) |-> ints.val.val[i].val])
    ELSE Return(rest)

\* self._metadata[key] = rest
SetItem(metadata, key, rest) ==
    [k \in DOMAIN metadata \cup {key} |-> IF k = key THEN rest ELSE metadata[k]]

\* __iter__: one line of the file that starts with '#'
MetadataLine(l) ==
    /\ gen = "suspended"
    /\ remaining > 0
    /\ startswith(l, "#")
    /\ LET toks == MetadataTokens(Self, l)
           key == Head(toks)
           rest == Directive(key, maybe_singleton(Tail(toks)))
       IN /\ line' = l
          /\ tokens' = toks
          /\ remaining' = remaining - 1
          /\ IF rest.ok
             THEN /\ _metadata' = SetItem(_metadata, key, rest.val)
                  /\ UNCHANGED <<gen, raised>>
             ELSE /\ gen' = "raised"
                  /\ raised' = rest.err
                  /\ UNCHANGED _metadata
    /\ UNCHANGED <<_decompose_aggregate, yielded>>

\* __iter__, a data line: line.rstrip('\n').split(self.separator)
DataTokens(self, l) == split(rstrip(l, "\n"), SplitSeparator(self))

\* __iter__, a data line: the record to yield, or the exception
DataRecord(self, cells) ==
    IF <<"t", "y", "p", "e", "s">> \notin DOMAIN self._metadata
    THEN Raise(Exception("KeyError", "{!r}", <<PyStr(<<"t", "y", "p", "e", "s">>)>>))
    ELSE LET values == _cast_values(self, cells, self._metadata[<<"t", "y", "p", "e", "s">>])
             fields == __getattr__(self, <<"f", "i", "e", "l", "d", "s">>)
         IN IF ~values.ok THEN values
            ELSE IF ~fields.ok THEN fields
            ELSE Return(Record(fields.val, values.val))

\* __iter__: one line of the file that does not start with '#'
DataLine(l) ==
    /\ gen = "suspended"
    /\ remaining > 0
    /\ ~startswith(l, "#")
    /\ LET cells == DataTokens(Self, l)
           r == DataRecord(Self, cells)
       IN /\ line' = l
          /\ tokens' = cells
          /\ remaining' = remaining - 1
          /\ IF r.ok
             THEN /\ yielded' = Append(yielded, r.val)
                  /\ UNCHANGED <<gen, raised>>
             ELSE /\ gen' = "raised"
                  /\ raised' = r.err
                  /\ UNCHANGED yielded
    /\ UNCHANGED <<_metadata, _decompose_aggregate>>

\* __iter__: the file has no more lines
EndOfFile ==
    /\ gen = "suspended"
    /\ gen' = "exhausted"
    /\ UNCHANGED <<_metadata, _decompose_aggregate, remaining, raised, yielded,
                   line, tokens>>

Next ==
    \/ \E l \in Lines : MetadataLine(l)
    \/ \E l \in Lines : DataLine(l)
    \/ EndOfFile

Spec == Init /\ [][Next]_vars

(***************************************************************************)
(* The reader once it has read a header: the lines of the header are read  *)
(* as MetadataLine reads them, from the state __init__ leaves.             *)
(***************************************************************************)
HeaderStart == <<<<"#", "u", "n", "s", "e", "t", "_", "f", "i", "e", "l", "d", " ", "-", "\n">>, <<"#", "e", "m", "p", "t", "y", "_", "f", "i", "e", "l", "d", " ", "(", "e", "m", "p", "t", "y", ")", "\n">>,
                 <<"#", "s", "e", "t", "_", "s", "e", "p", "a", "r", "a", "t", "o", "r", " ", ",", "\n">>>>
HeaderTypes == {
    <<"#", "t", "y", "p", "e", "s", " ", "v", "e", "c", "t", "o", "r", "[", "c", "o", "u", "n", "t", "]", " ", "s", "e", "t", "[", "s", "t", "r", "i", "n", "g", "]", "\n">>,
    <<"#", "t", "y", "p", "e", "s", " ", "l", "i", "s", "t", "[", "c", "o", "u", "n", "t", "]", " ", "s", "e", "t", "[", "d", "o", "u", "b", "l", "e", "]", "\n">>,
    <<"#", "t", "y", "p", "e", "s", " ", "s", "t", "r", "i", "n", "g", " ", "e", "n", "u", "m", "\n">>,
    <<"#", "t", "y", "p", "e", "s", " ", "a", "d", "d", "r", " ", "t", "i", "m", "e", "\n">>,
    <<"#", "t", "y", "p", "e", "s", " ", "i", "n", "t", "e", "r", "v", "a", "l", " ", "c", "o", "u", "n", "t", "\n">>,
    <<"#", "t", "y", "p", "e", "s", " ", "p", "o", "r", "t", " ", "b", "o", "o", "l", "\n">> }
Headers ==
    { HeaderStart \o <<<<"#", "f", "i", "e", "l", "d", "s", " ", "a", " ", "b", "\n">>, t>> : t \in HeaderTypes }
    \cup { HeaderStart \o <<<<"#", "f", "i", "e", "l", "d", "s", " ", "t", "s", "\n">>, <<"#", "t", "y", "p", "e", "s", " ", "s", "e", "t", "[", "s", "t", "r", "i", "n", "g", "]", "\n">>>> }

RECURSIVE MetadataAfter(_, _)
MetadataAfter(metadata, h) ==
    IF h = <<>> THEN metadata
    ELSE LET self == [_metadata |-> metadata, _decompose_aggregate |-> TRUE]
             toks == MetadataTokens(self, Head(h))
             rest == Directive(Head(toks), maybe_singleton(Tail(toks)))
         IN MetadataAfter(SetItem(metadata, Head(toks), rest.val), Tail(h))

\* The lines that may follow a header
BodyLines == {
    <<"#", "u", "n", "s", "e", "t", "_", "f", "i", "e", "l", "d", " ", "(", "e", "m", "p", "t", "y", ")", "\n">>,
    <<"#", "o", "p", "e", "n", " ", "2", "0", "1", "3", "-", "0", "1", "-", "0", "2", "-", "0", "3", "-", "0", "4", "-", "0", "5", "\n">>,
    <<"1", ",", "2", ",", "3", " ", "a", ",", "b", ",", "a", "\n">>,
    <<"(", "e", "m", "p", "t", "y", ")", " ", "(", "e", "m", "p", "t", "y", ")", "\n">>,
    <<"-", " ", "-", "\n">>,
    <<"1", ",", "-", ",", "3", " ", "-", "\n">>,
    <<"8", "0", " ", "T", "\n">>,
    <<"1", "9", "2", ".", "1", "6", "8", ".", "1", ".", "1", " ", "1", ".", "5", "\n">>,
    <<"1", ".", "5", " ", "8", "0", "\n">>,
    <<"a", ",", "b", "\n">> }

InitBody ==
    \E h \in Headers :
        /\ _metadata = MetadataAfter(InitialMetadata, h)
        /\ _decompose_aggregate \in BOOLEAN
        /\ remaining = MaxBodyLines
        /\ gen = "suspended"
        /\ raised = NoException
        /\ yielded = <<>>
        /\ line = h[Len(h)]
        /\ tokens = MetadataTokens(Self, h[Len(h)])

NextBody ==
    \/ \E l \in BodyLines : MetadataLine(l)
    \/ \E l \in BodyLines : DataLine(l)
    \/ EndOfFile

SpecBody == InitBody /\ [][NextBody]_vars
(***************************************************************************)
(* What the properties below read of a state.                              *)
(***************************************************************************)
Has(name) == name \in DOMAIN _metadata
\* The line read last was a data line, or a metadata line
ReadData == line # <<>> /\ ~startswith(line, "#")
ReadMetadata == startswith(line, "#")
\* The record yielded last, as its pairs <<name, value>>
LastRecord == yielded[Len(yielded)].val
\* The names a fields or types line declared, from what is stored for it
Declared(v) == IF v.tag = "str" THEN <<v.val>>
               ELSE [i \in 1..Len(v.val) |-> v.val[i].val]
\* The types the cells are cast against, in order
CastTypes == Iterate(_metadata[<<"t", "y", "p", "e", "s">>])
IsAggregate(type_) == AGGREGATE_TYPE_RE(type_) # <<>>
IsPrefix(s, t) == Len(s) <= Len(t) /\ SubSeq(t, 1, Len(s)) = s
Elements(s) == {s[i] : i \in 1..Len(s)}
\* What a cell becomes when it is passed through: None for the unset marker
PassedThrough(cell) ==
    IF PyStr(cell) = _metadata[<<"u", "n", "s", "e", "t", "_", "f", "i", "e", "l", "d">>] THEN PyNone ELSE PyStr(cell)

(***************************************************************************)
(* C1: after a header that declares n >= 1 field names and n types, a data *)
(* line of n cells, each decodable against the declared type of its        *)
(* position, yields the record whose keys are the declared names in order  *)
(* and whose i-th value is the i-th cell decoded against the i-th type.    *)
(***************************************************************************)
C1_RecordFollowsHeader ==
    (/\ ReadData
     /\ Has(<<"f", "i", "e", "l", "d", "s">>) /\ Has(<<"t", "y", "p", "e", "s">>) /\ Has(<<"u", "n", "s", "e", "t", "_", "f", "i", "e", "l", "d">>)
     /\ LET fs == Declared(_metadata[<<"f", "i", "e", "l", "d", "s">>])
            ts == Declared(_metadata[<<"t", "y", "p", "e", "s">>])
        IN /\ Len(fs) >= 1 /\ Len(ts) = Len(fs) /\ Len(tokens) = Len(fs)
           /\ \A i, j \in 1..Len(fs) : fs[i] = fs[j] => i = j
           /\ \A i \in 1..Len(fs) : _cast_value(Self, tokens[i], ts[i]).ok)
    => /\ gen # "raised"
       /\ yielded # <<>>
       /\ LET fs == Declared(_metadata[<<"f", "i", "e", "l", "d", "s">>])
              ts == Declared(_metadata[<<"t", "y", "p", "e", "s">>])
          IN LastRecord = [i \in 1..Len(fs) |->
                 <<fs[i], _cast_value(Self, tokens[i], ts[i]).val>>]

(***************************************************************************)
(* C2: every line is split on the separator stored when the line is read:  *)
(* a separator directive is itself split on the old separator, what is     *)
(* stored under the other keys and the records already yielded stay, and   *)
(* the stored separator changes only by a separator directive, to the      *)
(* character the directive names.                                          *)
(***************************************************************************)
C2_SeparatorInEffect ==
    [][remaining' = remaining - 1 =>
        LET sep == _metadata[<<"s", "e", "p", "a", "r", "a", "t", "o", "r">>].val[1]
            text == rstrip(IF startswith(line', "#") THEN lstrip(line', "#")
                           ELSE line', "\n")
        IN /\ tokens' = split(text, sep)
           /\ IsPrefix(yielded, yielded')
           /\ \A k \in DOMAIN _metadata :
                 /\ k \in DOMAIN _metadata'
                 /\ (~startswith(line', "#") \/ k # Head(tokens'))
                       => _metadata'[k] = _metadata[k]
           /\ _metadata'[<<"s", "e", "p", "a", "r", "a", "t", "o", "r">>] # _metadata[<<"s", "e", "p", "a", "r", "a", "t", "o", "r">>]
                 => startswith(line', "#") /\ Head(tokens') = <<"s", "e", "p", "a", "r", "a", "t", "o", "r">>
           /\ (line' = <<"#", "s", "e", "p", "a", "r", "a", "t", "o", "r", " ", "\\", "x", "0", "9", "\n">> /\ sep = " " /\ gen' = "suspended")
                 => _metadata'[<<"s", "e", "p", "a", "r", "a", "t", "o", "r">>] = PyStr(<<"\t">>)
      ]_vars

\* A data line split on the tab that an earlier directive stored
C2_Witness ==
    /\ _metadata[<<"s", "e", "p", "a", "r", "a", "t", "o", "r">>] = PyStr(<<"\t">>)
    /\ line = <<"8", "0", "\t", "T", "\n">>
    /\ tokens = <<<<"8", "0">>, <<"T">>>>
    /\ yielded # <<>>

(***************************************************************************)
(* C3: in a yielded record a value is None exactly when its cell equals    *)
(* the unset marker, whatever the type and the aggregate mode.             *)
(***************************************************************************)
C3_NoneIffUnset ==
    (ReadData /\ gen # "raised" /\ yielded # <<>>)
    => \A i \in 1..Len(LastRecord) :
          (LastRecord[i][2] = PyNone)
          <=> (Has(<<"u", "n", "s", "e", "t", "_", "f", "i", "e", "l", "d">>) /\ PyStr(tokens[i]) = _metadata[<<"u", "n", "s", "e", "t", "_", "f", "i", "e", "l", "d">>])

\* A record with None for an unset cell of an aggregate type, beside a value
C3_Witness ==
    /\ ReadData /\ gen = "suspended" /\ yielded # <<>>
    /\ Len(LastRecord) = 2
    /\ LastRecord[1][2] # PyNone
    /\ LastRecord[2][2] = PyNone
    /\ IsAggregate(CastTypes[2])
    /\ tokens[2] = <<"-">>

(***************************************************************************)
(* C4: a data line with a port cell at or above 65536 (the cells before it *)
(* decodable) leaves the generator with a ValueError that holds the value  *)
(* and the bound 65536; no record is yielded for a line that raises, the   *)
(* records yielded before stay, and the generator reads no line after an   *)
(* exception left it.                                                      *)
(***************************************************************************)
C4_DecodeErrorStops ==
    [][/\ gen = "suspended"
       /\ gen' = "raised" => yielded' = yielded /\ raised' # NoException
       /\ (/\ remaining' = remaining - 1
           /\ ~startswith(line', "#")
           /\ Has(<<"t", "y", "p", "e", "s">>) /\ Has(<<"u", "n", "s", "e", "t", "_", "f", "i", "e", "l", "d">>)
           /\ \E i \in 1..Min(Len(tokens'), Len(CastTypes)) :
                 /\ CastTypes[i] = <<"p", "o", "r", "t">>
                 /\ tokens'[i] # <<>> /\ AllDigits(tokens'[i])
                 /\ DecimalValue(tokens'[i]) >= 65536
                 /\ PyStr(tokens'[i]) # _metadata[<<"u", "n", "s", "e", "t", "_", "f", "i", "e", "l", "d">>]
                 /\ \A j \in 1..(i - 1) :
                       _cast_value(Self, tokens'[j], CastTypes[j]).ok)
          => /\ gen' = "raised"
             /\ yielded' = yielded
             /\ raised'.exc = "ValueError"
             /\ \E i \in 1..Min(Len(tokens'), Len(CastTypes)) :
                   /\ CastTypes[i] = <<"p", "o", "r", "t">>
                   /\ AllDigits(tokens'[i])
                   /\ PyInt(DecimalValue(tokens'[i])) \in Elements(raised'.args)
             /\ PyInt(65536) \in Elements(raised'.args)
      ]_vars

\* The port 65536 refused after a record was yielded
C4_Witness ==
    /\ gen = "raised"
    /\ raised = Exception("ValueError", "{} not between {} and {}",
                          <<PyInt(65536), PyInt(0), PyInt(65536)>>)
    /\ line = <<"6", "5", "5", "3", "6", " ", "T", "\n">>
    /\ Len(yielded) = 1

\* The state after a data line read with decomposition disabled
C5_State ==
    (/\ ReadData /\ ~_decompose_aggregate
     /\ Has(<<"t", "y", "p", "e", "s">>) /\ Has(<<"f", "i", "e", "l", "d", "s">>) /\ Has(<<"u", "n", "s", "e", "t", "_", "f", "i", "e", "l", "d">>))
    => LET n == Min(Len(tokens), Len(CastTypes))
       IN /\ (\A i \in 1..n : IsAggregate(CastTypes[i])) => gen # "raised"
          /\ gen # "raised" =>
                \A i \in 1..Min(n, Len(LastRecord)) :
                    IsAggregate(CastTypes[i])
                       => LastRecord[i][2] = PassedThrough(tokens[i])

(***************************************************************************)
(* C5: with decomposition disabled, the cell of an aggregate type comes    *)
(* back as the str it is, the empty marker included, and None when it is   *)
(* the unset marker; such a cell raises nothing; the mode never changes.   *)
(***************************************************************************)
C5_AggregatePassThrough ==
    [][_decompose_aggregate' = _decompose_aggregate /\ C5_State']_vars

\* The empty marker passed through as a str, for a vector
C5_Witness ==
    /\ ReadData /\ ~_decompose_aggregate /\ gen = "suspended"
    /\ yielded # <<>>
    /\ CastTypes[1] = <<"v", "e", "c", "t", "o", "r", "[", "c", "o", "u", "n", "t", "]">>
    /\ LastRecord[1][2] = PyStr(<<"(", "e", "m", "p", "t", "y", ")">>)
    /\ _metadata[<<"e", "m", "p", "t", "y", "_", "f", "i", "e", "l", "d">>] = PyStr(<<"(", "e", "m", "p", "t", "y", ")">>)

(***************************************************************************)
(* C6: with decomposition enabled, a set or vector cell that is the empty  *)
(* marker becomes the empty collection of its kind; any other cell but the *)
(* unset marker is split on the set separator and each piece decoded with  *)
(* the element type, a vector keeping the order of the pieces and a set    *)
(* collapsing the duplicates.                                              *)
(***************************************************************************)
C6_Decomposed ==
    (/\ ReadData /\ _decompose_aggregate /\ gen # "raised" /\ yielded # <<>>
     /\ Has(<<"e", "m", "p", "t", "y", "_", "f", "i", "e", "l", "d">>) /\ Has(<<"s", "e", "t", "_", "s", "e", "p", "a", "r", "a", "t", "o", "r">>))
    => /\ \A i \in 1..Min(Len(LastRecord), Min(Len(tokens), Len(CastTypes))) :
            LET m == AGGREGATE_TYPE_RE(CastTypes[i])
                ps == split(tokens[i], _metadata[<<"s", "e", "t", "_", "s", "e", "p", "a", "r", "a", "t", "o", "r">>].val[1])
                ds == [k \in 1..Len(ps) |-> _cast_value(Self, ps[k], m[2]).val]
                v == LastRecord[i][2]
            IN (/\ m # <<>> /\ m[1] \in {<<"s", "e", "t">>, <<"v", "e", "c", "t", "o", "r">>}
                /\ PyStr(tokens[i]) # _metadata[<<"u", "n", "s", "e", "t", "_", "f", "i", "e", "l", "d">>])
               => IF PyStr(tokens[i]) = _metadata[<<"e", "m", "p", "t", "y", "_", "f", "i", "e", "l", "d">>]
                  THEN v = (IF m[1] = <<"s", "e", "t">> THEN PySet({}) ELSE PyTuple(<<>>))
                  ELSE v = (IF m[1] = <<"s", "e", "t">> THEN PySet(Elements(ds))
                            ELSE PyTuple(ds))
       /\ (/\ line = <<"1", ",", "2", ",", "3", " ", "a", ",", "b", ",", "a", "\n">>
           /\ _metadata[<<"t", "y", "p", "e", "s">>]
                 = PyTuple(<<PyStr(<<"v", "e", "c", "t", "o", "r", "[", "c", "o", "u", "n", "t", "]">>), PyStr(<<"s", "e", "t", "[", "s", "t", "r", "i", "n", "g", "]">>)>>)
           /\ _metadata[<<"f", "i", "e", "l", "d", "s">>] = PyTuple(<<PyStr(<<"a">>), PyStr(<<"b">>)>>)
           /\ _metadata[<<"u", "n", "s", "e", "t", "_", "f", "i", "e", "l", "d">>] = PyStr(<<"-">>))
          => LastRecord
                = << <<<<"a">>, PyTuple(<<PyInt(1), PyInt(2), PyInt(3)>>)>>,
                     <<<<"b">>, PySet({PyStr(<<"a">>), PyStr(<<"b">>)})>> >>

\* 1,2,3 and a,b,a decomposed
C6_Witness ==
    /\ ReadData /\ _decompose_aggregate /\ gen = "suspended"
    /\ line = <<"1", ",", "2", ",", "3", " ", "a", ",", "b", ",", "a", "\n">>
    /\ yielded # <<>>
    /\ LastRecord[1][2] = PyTuple(<<PyInt(1), PyInt(2), PyInt(3)>>)
    /\ LastRecord[2][2] = PySet({PyStr(<<"a">>), PyStr(<<"b">>)})

(***************************************************************************)
(* C7: a cell of a scalar type that is enum, string or no registered name, *)
(* and that is not the unset marker, is decoded to the str it is, and      *)
(* nothing is raised.                                                      *)
(***************************************************************************)
C7_UnregisteredPassThrough ==
    (/\ ReadData
     /\ Has(<<"t", "y", "p", "e", "s">>) /\ Has(<<"f", "i", "e", "l", "d", "s">>) /\ Has(<<"u", "n", "s", "e", "t", "_", "f", "i", "e", "l", "d">>)
     /\ _metadata[<<"t", "y", "p", "e", "s">>].tag = "tuple"
     /\ _metadata[<<"f", "i", "e", "l", "d", "s">>].tag = "tuple"
     /\ \A i \in 1..Min(Len(tokens), Len(CastTypes)) :
           /\ ~IsAggregate(CastTypes[i])
           /\ CastTypes[i] \in {<<"e", "n", "u", "m">>, <<"s", "t", "r", "i", "n", "g">>} \/ CastTypes[i] \notin TYPES)
    => /\ gen # "raised"
       /\ yielded # <<>>
       /\ \A i \in 1..Min(Len(LastRecord), Min(Len(tokens), Len(CastTypes))) :
             LastRecord[i][2] = PassedThrough(tokens[i])

(***************************************************************************)
(* C8: a separator or set_separator line either stores one character under *)
(* its key or fails with BroLogFormatError.                                *)
(***************************************************************************)
C8_SeparatorOrFormatError ==
    (ReadMetadata /\ Head(tokens) \in {<<"s", "e", "p", "a", "r", "a", "t", "o", "r">>, <<"s", "e", "t", "_", "s", "e", "p", "a", "r", "a", "t", "o", "r">>})
    => \/ /\ gen # "raised"
          /\ _metadata[Head(tokens)].tag = "str"
          /\ len(_metadata[Head(tokens)]) = 1
       \/ /\ gen = "raised"
          /\ raised.exc = "BroLogFormatError"

(***************************************************************************)
(* C9: a data line read while fields or types is not stored yields no      *)
(* record: an exception leaves the generator, KeyError for types when      *)
(* types is missing, AttributeError for fields when only fields is missing *)
(* and the cells cast.                                                     *)
(***************************************************************************)
C9_NoRecordBeforeHeader ==
    [][(/\ remaining' = remaining - 1
        /\ ~startswith(line', "#")
        /\ ~(Has(<<"f", "i", "e", "l", "d", "s">>) /\ Has(<<"t", "y", "p", "e", "s">>)))
       => /\ gen' = "raised"
          /\ yielded' = yielded
          /\ raised' # NoException
          /\ ~Has(<<"t", "y", "p", "e", "s">>)
                => raised' = Exception("KeyError", "{!r}", <<PyStr(<<"t", "y", "p", "e", "s">>)>>)
          /\ (Has(<<"t", "y", "p", "e", "s">>) /\ raised'.exc # "AttributeError")
                => \E i \in 1..Min(Len(tokens'), Len(CastTypes)) :
                      ~_cast_value(Self, tokens'[i], CastTypes[i]).ok
      ]_vars

\* A data line whose cells cast, refused for the missing fields
C9_Witness ==
    /\ ReadData /\ gen = "raised"
    /\ Has(<<"t", "y", "p", "e", "s">>) /\ ~Has(<<"f", "i", "e", "l", "d", "s">>)
    /\ raised = Exception("AttributeError", "{}", <<PyStr(<<"f", "i", "e", "l", "d", "s">>)>>)
    /\ yielded = <<>>

(***************************************************************************)
(* C10: once fields and types are both stored they declare as many names   *)
(* as types, and no record has fewer entries than there are declared       *)
(* fields.                                                                 *)
(***************************************************************************)
C10_FieldsMatchTypes ==
    (Has(<<"f", "i", "e", "l", "d", "s">>) /\ Has(<<"t", "y", "p", "e", "s">>))
    => /\ Len(Declared(_metadata[<<"f", "i", "e", "l", "d", "s">>])) = Len(Declared(_metadata[<<"t", "y", "p", "e", "s">>]))
       /\ (ReadData /\ gen # "raised" /\ yielded # <<>>)
             => Len(LastRecord) >= Len(Declared(_metadata[<<"f", "i", "e", "l", "d", "s">>]))
====
